------------------------------ MODULE Spec2Model ------------------------------
(***************************************************************************)
(* A model of the job-scraper pipeline: the eligibility classifiers of     *)
(* job_scraper.py, the aggregation / deduplication / filtering run of      *)
(* scrape_and_filter_jobs, the source adapters of remote_boards.py and     *)
(* swedish_boards.py, and the SQLite store and triggers of app.py.         *)
(*                                                                         *)
(* Python values are modelled as sequences of strings: a str is the        *)
(* sequence of its characters (each a one-character string), and the       *)
(* non-str values float('nan') and True are the one-element sequences      *)
(* NaN and PyTrue, whose element is not a character.                        *)
(***************************************************************************)
EXTENDS Integers, Sequences, FiniteSets, TLC

VARIABLES
    job,            \* SpecFilter: the record handed to the classifiers
    eu_result,      \* SpecFilter: <<>> or <<value returned by is_eu_friendly>>
    entry_result,   \* SpecFilter: <<>> or <<value returned by is_entry_level>>
    pc,             \* where the pipeline run is: "idle" between runs
    runs,           \* runs started so far
    trigger,        \* the operation that started the run
    upstream,       \* what every source answers during the run
    term,           \* index of the search term the current loop is at
    all_jobs,       \* scrape_and_filter_jobs: the list of frames collected
    handed,         \* <<>> or <<full_df>>, the frame handed to drop_duplicates
    unique_df,      \* full_df after drop_duplicates
    final_df,       \* the frame scrape_and_filter_jobs returns
    emails,         \* calls of send_email during the run
    outcome,        \* "running", "completed", "caught" or "escaped"
    db0,            \* db as it was when the run started
    save_failed,    \* save_jobs_to_db raised during the run
    reply,          \* <<>> or <<the answer trigger_scrape gave for the run>>
    db,             \* the jobs table of jobs.db and its AUTOINCREMENT counter
    saves,          \* SpecStore: calls of save_jobs_to_db with a fresh frame
    batch,          \* SpecStore: <<>> or <<the frame last saved>>
    again,          \* SpecStore: the last frame has been saved a second time
    db_once,        \* SpecStore: db after the first of the two calls
    save_result,    \* SpecStore: <<>> or <<what the last save_jobs_to_db call returned>>
    calls,          \* SpecAdapter: adapter calls made by test_source
    called,         \* SpecAdapter: the adapter called last
    fault,          \* SpecAdapter: the failure that hit the call
    call_result,    \* SpecAdapter: what crossed the adapter boundary
    test_failed,    \* SpecAdapter: test_source took its except branch
    total_jobs,     \* SpecAdapter: the sum of the counts test_source returned
    now,            \* SpecRate: time.time(), in seconds
    last_called,    \* SpecRate: last_called[0] of the adapter's rate_limit closure
    rl_pc,          \* SpecRate: where each caller is inside the wrapper
    wake,           \* SpecRate: when the time.sleep of each caller is over
    starts,         \* SpecRate: the calls of func so far, who made each and when
    raises,         \* SpecRate: calls of func that ended by raising
    save_df,        \* SpecOverlap: the filtered frame each run persists
    wpc,            \* SpecOverlap: where each run is inside save_jobs_to_db
    wi,             \* SpecOverlap: the row each run writes next
    lock,           \* SpecOverlap: the connection holding the write lock of jobs.db
    txn,            \* SpecOverlap: the table as the open transaction has it
    seen,           \* SpecOverlap: <<>> or <<the rows the last get_jobs_from_db read>>
    kept,           \* SpecKeep: <<>> or <<whether the filter loop kept the record>>
    ex_adapter,     \* SpecExtract: the adapter function called
    ex_pages,       \* SpecExtract: what each request of the call was answered
    ex_jobs         \* SpecExtract: the list jobs of the call when it returns

filterVars == <<job, eu_result, entry_result, kept>>
pipeVars == <<pc, runs, trigger, upstream, term, all_jobs, handed, unique_df, final_df,
              emails, outcome, db0, save_failed, reply>>
storeVars == <<saves, batch, again, db_once, save_result>>
adapterVars == <<calls, called, fault, call_result, test_failed, total_jobs>>
rateVars == <<now, last_called, rl_pc, wake, starts, raises>>
overlapVars == <<save_df, wpc, wi, lock, txn, seen>>
extractVars == <<ex_adapter, ex_pages, ex_jobs>>
vars == <<filterVars, pipeVars, db, storeVars, adapterVars, rateVars, overlapVars,
         extractVars>>

(***************************************************************************)
(* Python values and text primitives                                       *)
(***************************************************************************)
NaN == <<"NaN">>
PyTrue == <<"True">>
PyFalse == <<"False">>
EmptyStr == <<>>

UpperLetters ==
    <<"A", "B", "C", "D", "E", "F", "G", "H", "I", "J", "K", "L", "M", "N", "O", "P", "Q", "R", "S", "T", "U", "V", "W", "X", "Y", "Z">>
LowerLetters ==
    <<"a", "b", "c", "d", "e", "f", "g", "h", "i", "j", "k", "l", "m", "n", "o", "p", "q", "r", "s", "t", "u", "v", "w", "x", "y", "z">>

SeqRange(s) == { s[i] : i \in 1..Len(s) }

LowerMap ==
    [c \in SeqRange(UpperLetters) |->
        LowerLetters[CHOOSE i \in 1..Len(UpperLetters) : UpperLetters[i] = c]]

\* str.lower() on one character
LowerChar(c) == IF c \in DOMAIN LowerMap THEN LowerMap[c] ELSE c

\* str.lower()
Lower(s) == [i \in 1..Len(s) |-> LowerChar(s[i])]

\* str(v): str(float('nan')) is 'nan', str(True) is 'True', a str is itself
PyStr(v) ==
    IF v = NaN THEN <<"n", "a", "n">>
    ELSE IF v = PyTrue THEN <<"T", "r", "u", "e">>
    ELSE IF v = PyFalse THEN <<"F", "a", "l", "s", "e">>
    ELSE v

\* Python's `sub in s` on strings
Contains(sub, s) ==
    \E i \in 0..(Len(s) - Len(sub)) : SubSeq(s, i + 1, i + Len(sub)) = sub

\* dict.get / Series.get with a default
Get(row, key, default) == IF key \in DOMAIN row THEN row[key] ELSE default

\* bool(v) for the values a flag cell can hold: nan and True are truthy
Truthy(v) == v \notin {PyFalse, EmptyStr}

(***************************************************************************)
(* Configuration of job_scraper.py                                         *)
(***************************************************************************)
(* USA; United States; North America; APAC; US Only; Canada; Mexico *)
US_LOCATIONS_TO_EXCLUDE ==
    << <<"U", "S", "A">>,
       <<"U", "n", "i", "t", "e", "d", " ", "S", "t", "a", "t", "e", "s">>,
       <<"N", "o", "r", "t", "h", " ", "A", "m", "e", "r", "i", "c", "a">>,
       <<"A", "P", "A", "C">>,
       <<"U", "S", " ", "O", "n", "l", "y">>,
       <<"C", "a", "n", "a", "d", "a">>,
       <<"M", "e", "x", "i", "c", "o">> >>

(* US authorization required; Must reside in US; US Citizens only; Green Card; Canada only; Must reside in Canada; North America only; Must reside in North America *)
US_KEYWORDS_TO_EXCLUDE ==
    << <<"U", "S", " ", "a", "u", "t", "h", "o", "r", "i", "z", "a", "t", "i", "o", "n", " ", "r", "e", "q", "u", "i", "r", "e", "d">>,
       <<"M", "u", "s", "t", " ", "r", "e", "s", "i", "d", "e", " ", "i", "n", " ", "U", "S">>,
       <<"U", "S", " ", "C", "i", "t", "i", "z", "e", "n", "s", " ", "o", "n", "l", "y">>,
       <<"G", "r", "e", "e", "n", " ", "C", "a", "r", "d">>,
       <<"C", "a", "n", "a", "d", "a", " ", "o", "n", "l", "y">>,
       <<"M", "u", "s", "t", " ", "r", "e", "s", "i", "d", "e", " ", "i", "n", " ", "C", "a", "n", "a", "d", "a">>,
       <<"N", "o", "r", "t", "h", " ", "A", "m", "e", "r", "i", "c", "a", " ", "o", "n", "l", "y">>,
       <<"M", "u", "s", "t", " ", "r", "e", "s", "i", "d", "e", " ", "i", "n", " ", "N", "o", "r", "t", "h", " ", "A", "m", "e", "r", "i", "c", "a">> >>

(* junior; entry level; entry-level; graduate; internship; intern; 0-1 years; 0-2 years; no experience; recent graduate; new grad; trainee; associate *)
ENTRY_LEVEL_POSITIVE ==
    << <<"j", "u", "n", "i", "o", "r">>,
       <<"e", "n", "t", "r", "y", " ", "l", "e", "v", "e", "l">>,
       <<"e", "n", "t", "r", "y", "-", "l", "e", "v", "e", "l">>,
       <<"g", "r", "a", "d", "u", "a", "t", "e">>,
       <<"i", "n", "t", "e", "r", "n", "s", "h", "i", "p">>,
       <<"i", "n", "t", "e", "r", "n">>,
       <<"0", "-", "1", " ", "y", "e", "a", "r", "s">>,
       <<"0", "-", "2", " ", "y", "e", "a", "r", "s">>,
       <<"n", "o", " ", "e", "x", "p", "e", "r", "i", "e", "n", "c", "e">>,
       <<"r", "e", "c", "e", "n", "t", " ", "g", "r", "a", "d", "u", "a", "t", "e">>,
       <<"n", "e", "w", " ", "g", "r", "a", "d">>,
       <<"t", "r", "a", "i", "n", "e", "e">>,
       <<"a", "s", "s", "o", "c", "i", "a", "t", "e">> >>

(* senior; lead; principal; staff; architect; director; manager; 5+ years; 5-7 years; 7+ years; 10+ years; expert; experienced *)
EXPERIENCE_KEYWORDS_TO_EXCLUDE ==
    << <<"s", "e", "n", "i", "o", "r">>,
       <<"l", "e", "a", "d">>,
       <<"p", "r", "i", "n", "c", "i", "p", "a", "l">>,
       <<"s", "t", "a", "f", "f">>,
       <<"a", "r", "c", "h", "i", "t", "e", "c", "t">>,
       <<"d", "i", "r", "e", "c", "t", "o", "r">>,
       <<"m", "a", "n", "a", "g", "e", "r">>,
       <<"5", "+", " ", "y", "e", "a", "r", "s">>,
       <<"5", "-", "7", " ", "y", "e", "a", "r", "s">>,
       <<"7", "+", " ", "y", "e", "a", "r", "s">>,
       <<"1", "0", "+", " ", "y", "e", "a", "r", "s">>,
       <<"e", "x", "p", "e", "r", "t">>,
       <<"e", "x", "p", "e", "r", "i", "e", "n", "c", "e", "d">> >>

(***************************************************************************)
(* The eligibility classifiers (job_scraper.py)                            *)
(***************************************************************************)
RECURSIVE ScanField(_, _, _)
\* for kw in keywords[i..]: if kw.lower() in text: return True   (else False)
ScanField(keywords, i, text) ==
    IF i > Len(keywords) THEN FALSE
    ELSE IF Contains(Lower(keywords[i]), text) THEN TRUE
    ELSE ScanField(keywords, i + 1, text)

RECURSIVE ScanTitleOrDescription(_, _, _, _)
\* for kw in keywords[i..]: if kw.lower() in title or kw.lower() in description
ScanTitleOrDescription(keywords, i, title, description) ==
    IF i > Len(keywords) THEN FALSE
    ELSE IF Contains(Lower(keywords[i]), title) \/ Contains(Lower(keywords[i]), description)
         THEN TRUE
    ELSE ScanTitleOrDescription(keywords, i + 1, title, description)

\* a plausible slip: the location is compared without being lower-cased
is_eu_friendly_case_sensitive(record) ==
    LET location == PyStr(Get(record, "location", EmptyStr))
        description == Lower(PyStr(Get(record, "description", EmptyStr)))
    IN  IF ScanField(US_LOCATIONS_TO_EXCLUDE, 1, location) THEN FALSE
        ELSE IF ScanField(US_KEYWORDS_TO_EXCLUDE, 1, description) THEN FALSE
        ELSE TRUE

is_eu_friendly(record) ==
    LET location == Lower(PyStr(Get(record, "location", EmptyStr)))
        description == Lower(PyStr(Get(record, "description", EmptyStr)))
    IN  IF ScanField(US_LOCATIONS_TO_EXCLUDE, 1, location) THEN FALSE
        ELSE IF ScanField(US_KEYWORDS_TO_EXCLUDE, 1, description) THEN FALSE
        ELSE TRUE

\* a plausible slip: the entry-level keywords are looked for first
is_entry_level_positive_first(record) ==
    LET title == Lower(PyStr(Get(record, "title", EmptyStr)))
        description == Lower(PyStr(Get(record, "description", EmptyStr)))
    IN  IF ScanTitleOrDescription(ENTRY_LEVEL_POSITIVE, 1, title, description) THEN TRUE
        ELSE IF ScanTitleOrDescription(EXPERIENCE_KEYWORDS_TO_EXCLUDE, 1, title, description)
             THEN FALSE
        ELSE TRUE

\* a plausible slip: without a keyword of either list the record is rejected
is_entry_level_strict(record) ==
    LET title == Lower(PyStr(Get(record, "title", EmptyStr)))
        description == Lower(PyStr(Get(record, "description", EmptyStr)))
    IN  IF ScanTitleOrDescription(EXPERIENCE_KEYWORDS_TO_EXCLUDE, 1, title, description)
        THEN FALSE
        ELSE IF ScanTitleOrDescription(ENTRY_LEVEL_POSITIVE, 1, title, description) THEN TRUE
        ELSE FALSE

is_entry_level(record) ==
    LET title == Lower(PyStr(Get(record, "title", EmptyStr)))
        description == Lower(PyStr(Get(record, "description", EmptyStr)))
    IN  IF ScanTitleOrDescription(EXPERIENCE_KEYWORDS_TO_EXCLUDE, 1, title, description)
        THEN FALSE
        ELSE IF ScanTitleOrDescription(ENTRY_LEVEL_POSITIVE, 1, title, description) THEN TRUE
        ELSE TRUE

(***************************************************************************)
(* pandas frames: the set of columns and the rows, each row a function     *)
(* from the columns to cell values                                         *)
(***************************************************************************)
\* pd.DataFrame()
EmptyFrame == [cols |-> {}, rows |-> <<>>]

\* a row widened to more columns: the cells it lacks are nan
Extend(row, cols) == [c \in cols |-> IF c \in DOMAIN row THEN row[c] ELSE NaN]

\* pd.DataFrame(list of dicts)
FrameOf(records) ==
    LET cols == UNION { DOMAIN records[i] : i \in 1..Len(records) }
    IN  [cols |-> cols, rows |-> [i \in 1..Len(records) |-> Extend(records[i], cols)]]

\* DataFrame.empty: no rows or no columns
IsEmpty(df) == df.cols = {} \/ df.rows = <<>>

\* df[col] = value
SetColumn(df, col, value) ==
    LET cols == df.cols \cup {col}
    IN  [cols |-> cols,
         rows |-> [i \in 1..Len(df.rows) |->
                      [c \in cols |-> IF c = col THEN value ELSE df.rows[i][c]]]]

\* df.rename(columns=mapping)
Rename(df, mapping) ==
    LET NewName(c) == IF c \in DOMAIN mapping THEN mapping[c] ELSE c
        cols == { NewName(c) : c \in df.cols }
    IN  [cols |-> cols,
         rows |-> [i \in 1..Len(df.rows) |->
                      [n \in cols |-> df.rows[i][CHOOSE c \in df.cols : NewName(c) = n]]]]

\* df[[c for c in keep if c in df.columns]]
SelectColumns(df, keep) ==
    LET cols == df.cols \cap keep
    IN  [cols |-> cols, rows |-> [i \in 1..Len(df.rows) |-> [c \in cols |-> df.rows[i][c]]]]

RECURSIVE ConcatRows(_, _, _)
ConcatRows(frames, i, cols) ==
    IF i > Len(frames) THEN <<>>
    ELSE [k \in 1..Len(frames[i].rows) |-> Extend(frames[i].rows[k], cols)]
             \o ConcatRows(frames, i + 1, cols)

\* pd.concat(frames, ignore_index=True) of a non-empty list; an empty list raises
\* ValueError, which the callers below model at the call
Concat(frames) ==
    LET cols == UNION { frames[i].cols : i \in 1..Len(frames) }
    IN  [cols |-> cols, rows |-> ConcatRows(frames, 1, cols)]

RECURSIVE KeepRows(_, _, _)
\* the rows at the indexes of `keep`, in their order
KeepRows(rows, i, keep) ==
    IF i > Len(rows) THEN <<>>
    ELSE (IF i \in keep THEN <<rows[i]>> ELSE <<>>) \o KeepRows(rows, i + 1, keep)

\* a plausible slip: keep='last'
DropDuplicates_keep_last(df, col) ==
    LET keep == { i \in 1..Len(df.rows) :
                    \A j \in (i + 1)..Len(df.rows) : df.rows[j][col] # df.rows[i][col] }
    IN  [cols |-> df.cols, rows |-> KeepRows(df.rows, 1, keep)]

\* df.drop_duplicates(subset=[col]) with col a column of df: the first row of
\* each value of the column is kept
DropDuplicates(df, col) ==
    LET keep == { i \in 1..Len(df.rows) :
                    \A j \in 1..(i - 1) : df.rows[j][col] # df.rows[i][col] }
    IN  [cols |-> df.cols, rows |-> KeepRows(df.rows, 1, keep)]

(***************************************************************************)
(* The sources and what they answer during one run                          *)
(***************************************************************************)
MaxTerms == 1       \* search terms of SEARCH_TERMS the model runs through
MaxBoards == 2      \* remote board adapters the model calls
MaxRuns == 1        \* pipeline runs in one behaviour

(* Junior Data Scientist; Entry Level Data Scientist; Junior Software Testing
   Engineer; Entry Level Test Automation Engineer; Junior Back-End Engineer;
   Entry Level DevOps; Junior DevOps; Entry Level MLOps; Graduate Data
   Scientist; Graduate Software Engineer *)
SEARCH_TERMS ==
    << <<"J", "u", "n", "i", "o", "r", " ", "D", "a", "t", "a", " ", "S", "c", "i", "e", "n", "t", "i", "s", "t">>,
       <<"E", "n", "t", "r", "y", " ", "L", "e", "v", "e", "l", " ", "D", "a", "t", "a", " ", "S", "c", "i", "e", "n", "t", "i", "s", "t">>,
       <<"J", "u", "n", "i", "o", "r", " ", "S", "o", "f", "t", "w", "a", "r", "e", " ", "T", "e", "s", "t", "i", "n", "g", " ", "E", "n", "g", "i", "n", "e", "e", "r">>,
       <<"E", "n", "t", "r", "y", " ", "L", "e", "v", "e", "l", " ", "T", "e", "s", "t", " ", "A", "u", "t", "o", "m", "a", "t", "i", "o", "n", " ", "E", "n", "g", "i", "n", "e", "e", "r">>,
       <<"J", "u", "n", "i", "o", "r", " ", "B", "a", "c", "k", "-", "E", "n", "d", " ", "E", "n", "g", "i", "n", "e", "e", "r">>,
       <<"E", "n", "t", "r", "y", " ", "L", "e", "v", "e", "l", " ", "D", "e", "v", "O", "p", "s">>,
       <<"J", "u", "n", "i", "o", "r", " ", "D", "e", "v", "O", "p", "s">>,
       <<"E", "n", "t", "r", "y", " ", "L", "e", "v", "e", "l", " ", "M", "L", "O", "p", "s">>,
       <<"G", "r", "a", "d", "u", "a", "t", "e", " ", "D", "a", "t", "a", " ", "S", "c", "i", "e", "n", "t", "i", "s", "t">>,
       <<"G", "r", "a", "d", "u", "a", "t", "e", " ", "S", "o", "f", "t", "w", "a", "r", "e", " ", "E", "n", "g", "i", "n", "e", "e", "r">> >>

\* SEARCH_TERMS + ["Internship", "Trainee", "Summer Job"]
SWEDEN_TERMS ==
    SEARCH_TERMS \o << <<"I", "n", "t", "e", "r", "n", "s", "h", "i", "p">>, <<"T", "r", "a", "i", "n", "e", "e">>, <<"S", "u", "m", "m", "e", "r", " ", "J", "o", "b">> >>

\* a source's answer: it raises, or it yields records (dicts)
Raises == [ok |-> FALSE, records |-> <<>>]
Yields(records) == [ok |-> TRUE, records |-> records]

\* a posting as scrape_jobs returns it
JobspyPosting(title, company, url, date, location, description, site) ==
    [k \in {"title", "company", "job_url", "date_posted", "location", "description", "site"} |->
        CASE k = "title" -> title
          [] k = "company" -> company
          [] k = "job_url" -> url
          [] k = "date_posted" -> date
          [] k = "location" -> location
          [] k = "description" -> description
          [] OTHER -> site]

\* a posting as a remote board adapter builds it
BoardPosting(title, company, url, date, location, source) ==
    [k \in {"Job Title", "Company", "Job URL", "Date Posted", "Location", "Source"} |->
        CASE k = "Job Title" -> title
          [] k = "Company" -> company
          [] k = "Job URL" -> url
          [] k = "Date Posted" -> date
          [] k = "Location" -> location
          [] OTHER -> source]

\* Junior Data Scientist at Acme, url u1, location US Only
SearchPostingA ==
    JobspyPosting(<<"J", "u", "n", "i", "o", "r", " ", "D", "a", "t", "a", " ", "S", "c", "i", "e", "n", "t", "i", "s", "t">>, <<"A", "c", "m", "e">>, <<"u", "1">>, <<"d", "1">>,
                  <<"U", "S", " ", "O", "n", "l", "y">>, <<"J", "o", "i", "n", " ", "o", "u", "r", " ", "t", "e", "a", "m">>, <<"i", "n", "d", "e", "e", "d">>)

\* Trainee Developer at Volvo, url u2, location Sweden (US Only)
SwedenPostingA ==
    JobspyPosting(<<"T", "r", "a", "i", "n", "e", "e", " ", "D", "e", "v", "e", "l", "o", "p", "e", "r">>, <<"V", "o", "l", "v", "o">>, <<"u", "2">>, <<"d", "2">>,
                  <<"S", "w", "e", "d", "e", "n", " ", "(", "U", "S", " ", "O", "n", "l", "y", ")">>, <<"J", "o", "i", "n", " ", "o", "u", "r", " ", "t", "e", "a", "m">>, <<"l", "i", "n", "k", "e", "d", "i", "n">>)

\* Data Intern, the url u1 of SearchPostingA
BoardPostingA ==
    BoardPosting(<<"D", "a", "t", "a", " ", "I", "n", "t", "e", "r", "n">>, <<"R", "e", "m", "o", "t", "i", "v", "e">>, <<"u", "1">>, <<"d", "3">>, <<"R", "e", "m", "o", "t", "e">>, <<"R", "e", "m", "o", "t", "i", "v", "e">>)

\* Graduate Developer, with the empty url of entry.get('link', '')
BoardPostingE ==
    BoardPosting(<<"G", "r", "a", "d", "u", "a", "t", "e", " ", "D", "e", "v", "e", "l", "o", "p", "e", "r">>, <<"J", "o", "b", "i", "c", "y">>, EmptyStr, <<"d", "4">>, <<"R", "e", "m", "o", "t", "e">>, <<"J", "o", "b", "i", "c", "y">>)

\* what scrape_jobs answers for a remote search: an exception, no jobs, postings
SearchResponses == { Raises, Yields(<<>>), Yields(<<SearchPostingA>>) }

\* what scrape_jobs answers for a Sweden search
SwedenResponses == { Raises, Yields(<<>>), Yields(<<SwedenPostingA>>) }

\* what a remote board yields inside its adapter
BoardResponses == { Raises, Yields(<<BoardPostingA, BoardPostingE>>) }

\* the answers of all sources during one run
Upstreams ==
    [search : [1..MaxTerms -> SearchResponses],
     sweden : [1..MaxTerms -> SwedenResponses],
     boards : [1..MaxBoards -> BoardResponses]]

NoUpstream == [search |-> <<>>, sweden |-> <<>>, boards |-> <<>>]

(***************************************************************************)
(* remote_boards.py: safe_scrape and fetch_all_remote_boards               *)
(***************************************************************************)
\* the outcome of a call: an exception, or a returned frame
Raised == [raised |-> TRUE, frame |-> EmptyFrame]
Returned(df) == [raised |-> FALSE, frame |-> df]

\* the decorated function body: it builds pd.DataFrame(jobs), or an exception
\* leaves it
AdapterBody(response) ==
    IF response.ok THEN Returned(FrameOf(response.records)) ELSE Raised

\* a plausible slip: the exception is logged and raised again
safe_scrape_reraise(result) == result

\* safe_scrape: an exception of the wrapped call becomes pd.DataFrame()
safe_scrape(result) == IF result.raised THEN Returned(EmptyFrame) ELSE result

\* no failure during a call
NoFault == [kind |-> "none", place |-> "none", at |-> 0]

\* fetch_all_remote_boards: every adapter is called, the non-empty frames are
\* concatenated; pd.concat of no frame raises ValueError
fetch_all_remote_boards(responses) ==
    LET results == [i \in 1..Len(responses) |-> safe_scrape(AdapterBody(responses[i]))]
        escaped == \E i \in 1..Len(results) : results[i].raised
        frames == [i \in 1..Len(results) |-> results[i].frame]
        nonempty == SelectSeq(frames, LAMBDA df : ~IsEmpty(df))
    IN  IF escaped \/ nonempty = <<>> THEN Raised ELSE Returned(Concat(nonempty))

(***************************************************************************)
(* app.py: the store                                                       *)
(***************************************************************************)
\* init_db: the empty jobs table; seq is the last AUTOINCREMENT id given out
InitialDb == [jobs |-> {}, seq |-> 0]

\* a plausible slip: a plain INSERT into a table without the UNIQUE constraint
InsertOrReplace_plain_insert(table, row) ==
    [jobs |-> table.jobs \cup
              {[id |-> table.seq + 1,
                title |-> Get(row, "Job Title", EmptyStr),
                company |-> Get(row, "Company", EmptyStr),
                job_url |-> Get(row, "Job URL", EmptyStr),
                date_posted |-> Get(row, "Date Posted", EmptyStr),
                location |-> Get(row, "Location", EmptyStr),
                source |-> Get(row, "Source", EmptyStr)]},
     seq |-> table.seq + 1]

\* one INSERT OR REPLACE: a row with the same job_url is deleted (job_url is
\* UNIQUE; a nan binds as NULL, which conflicts with nothing), and the new row
\* gets the next id
InsertOrReplace(table, row) ==
    LET url == Get(row, "Job URL", EmptyStr)
        new == [id |-> table.seq + 1,
                title |-> Get(row, "Job Title", EmptyStr),
                company |-> Get(row, "Company", EmptyStr),
                job_url |-> url,
                date_posted |-> Get(row, "Date Posted", EmptyStr),
                location |-> Get(row, "Location", EmptyStr),
                source |-> Get(row, "Source", EmptyStr)]
    IN  [jobs |-> { r \in table.jobs : r.job_url # url \/ url = NaN } \cup {new},
         seq |-> table.seq + 1]

RECURSIVE InsertRows(_, _, _)
\* for _, row in df.iterrows(): conn.execute(INSERT OR REPLACE ...)
InsertRows(table, rows, i) ==
    IF i > Len(rows) THEN table ELSE InsertRows(InsertOrReplace(table, rows[i]), rows, i + 1)

\* save_jobs_to_db: nothing for an empty frame, else every row is written and
\* the batch committed
save_jobs_to_db(table, df) == IF IsEmpty(df) THEN table ELSE InsertRows(table, df.rows, 1)

\* the Python values None and an int
PyNone == <<"None">>
PyInt(n) == <<"int", n>>

\* what a call of save_jobs_to_db evaluates to: the bare return of the empty
\* case and the end of the function body both give None
save_jobs_to_db_returns(df) == PyNone

(***************************************************************************)
(* job_scraper.py: scrape_and_filter_jobs, and the triggers of app.py      *)
(***************************************************************************)
\* a plausible slip: a truthy flag skips both checks
KeepRow_flags_skip_both(row) ==
    LET is_sweden == Get(row, "is_sweden_local", PyFalse)
        is_remote_board == Get(row, "is_remote_board", PyFalse)
    IN  \/ Truthy(is_sweden)
        \/ Truthy(is_remote_board)
        \/ is_entry_level(row) /\ is_eu_friendly(row)

\* the loop body of the filter: the seniority check, then the location check
\* unless one of the two flags is truthy
KeepRow(row) ==
    LET is_sweden == Get(row, "is_sweden_local", PyFalse)
        is_remote_board == Get(row, "is_remote_board", PyFalse)
    IN  /\ is_entry_level(row)
        /\ ~(~Truthy(is_sweden) /\ ~Truthy(is_remote_board) /\ ~is_eu_friendly(row))

COLS_TO_KEEP == {"title", "company", "job_url", "date_posted", "location", "site"}

\* the column names of the returned frame
RESULT_NAMES ==
    [c \in COLS_TO_KEEP |->
        CASE c = "title" -> "Job Title"
          [] c = "company" -> "Company"
          [] c = "job_url" -> "Job URL"
          [] c = "date_posted" -> "Date Posted"
          [] c = "location" -> "Location"
          [] OTHER -> "Source"]

\* the column names given to the frame of the remote boards
BOARD_NAMES ==
    [c \in {"Job Title", "Company", "Job URL", "Date Posted", "Location", "Source"} |->
        CASE c = "Job Title" -> "title"
          [] c = "Company" -> "company"
          [] c = "Job URL" -> "job_url"
          [] c = "Date Posted" -> "date_posted"
          [] c = "Location" -> "location"
          [] OTHER -> "site"]

\* the filter loop and the selection and renaming of the columns
FilterAndSelect(df) ==
    LET filtered_jobs == SelectSeq(df.rows, KeepRow)
        final_frame ==
            IF filtered_jobs = <<>>
            THEN [cols |-> COLS_TO_KEEP \cup {"search_term"}, rows |-> <<>>]
            ELSE [cols |-> df.cols, rows |-> filtered_jobs]
    IN  Rename(SelectColumns(final_frame, COLS_TO_KEEP), RESULT_NAMES)

\* a plausible slip: the notifier is called whatever the result
ShouldNotify_always(df) == TRUE

\* if not df.empty: send_email(df)
ShouldNotify(df) == ~IsEmpty(df)

\* a plausible slip: the trigger has no except clause
TriggerExcept_propagates(kind) == "escaped"

\* except Exception as e: logger.error(...) of run_scraper and
\* run_background_scrape; main has no try statement
TriggerExcept(kind) == IF kind = "main" THEN "escaped" ELSE "caught"

\* the answers of trigger_scrape: the acknowledgment, and the 500 of its except
\* clause
Acknowledgment == [success |-> TRUE, status |-> 200]
StartFailure == [success |-> FALSE, status |-> 500]

\* a plausible slip: thread.join() before the return
trigger_scrape_joins_thread == TRUE

\* trigger_scrape returns right after thread.start()
trigger_scrape_waits == FALSE

\* the answer of trigger_scrape as it stands when the trigger has started a run
ResponseAtStart(kind) ==
    IF kind = "run_background_scrape" /\ ~trigger_scrape_waits THEN <<Acknowledgment>> ELSE <<>>

\* the answer of trigger_scrape as it stands when the run is over
ResponseAtEnd(kind, sent) ==
    IF kind = "run_background_scrape" /\ trigger_scrape_waits THEN <<Acknowledgment>> ELSE sent

\* where save_jobs_to_db can raise: at sqlite3.connect or an execute, which it
\* reaches with a non-empty frame; main writes a CSV file and no store
StoreOutcomes(kind, df) ==
    IF kind = "main" \/ IsEmpty(df) THEN {"saved"} ELSE {"saved", "failed"}

InitPipe ==
    /\ pc = "idle"
    /\ runs = 0
    /\ trigger = "none"
    /\ upstream = NoUpstream
    /\ term = 1
    /\ all_jobs = <<>>
    /\ handed = <<>>
    /\ unique_df = EmptyFrame
    /\ final_df = EmptyFrame
    /\ emails = 0
    /\ outcome = "none"
    /\ db0 = InitialDb
    /\ save_failed = FALSE
    /\ reply = <<>>

\* a run starts: the sources' answers during it are fixed, all_jobs = []
StartRunFrom(kind, choices) ==
    /\ pc = "idle"
    /\ runs < MaxRuns
    /\ runs' = runs + 1
    /\ trigger' = kind
    /\ upstream' \in choices
    /\ pc' = "search"
    /\ term' = 1
    /\ all_jobs' = <<>>
    /\ handed' = <<>>
    /\ unique_df' = EmptyFrame
    /\ final_df' = EmptyFrame
    /\ emails' = 0
    /\ outcome' = "running"
    /\ db0' = db
    /\ save_failed' = FALSE
    /\ reply' = ResponseAtStart(kind)
    /\ UNCHANGED <<extractVars, rateVars, overlapVars, db, filterVars, storeVars, adapterVars>>

StartRun(kind) == StartRunFrom(kind, Upstreams)

\* the scheduler calls run_scraper
RunScraper == StartRun("run_scraper")

\* POST /api/scrape: trigger_scrape starts the thread of run_background_scrape
\* and answers
TriggerScrape == StartRun("run_background_scrape")

\* POST /api/scrape when thread.start() raises: the except clause answers 500
\* and no run starts
TriggerScrapeFails ==
    /\ pc = "idle"
    /\ runs < MaxRuns
    /\ runs' = runs + 1
    /\ reply' = <<StartFailure>>
    /\ UNCHANGED <<extractVars, rateVars, overlapVars, pc, trigger, upstream, term, all_jobs, handed,
                   unique_df, final_df, emails, outcome, db0, save_failed, db,
                   filterVars, storeVars, adapterVars>>

\* python job_scraper.py: main()
MainScript == StartRun("main")

\* one pass of the loop over SEARCH_TERMS
SearchCall ==
    /\ pc = "search"
    /\ LET answer == upstream.search[term]
           jobs == SetColumn(FrameOf(answer.records), "search_term", SEARCH_TERMS[term])
       IN  all_jobs' = IF answer.ok THEN Append(all_jobs, jobs) ELSE all_jobs
    /\ IF term < MaxTerms
       THEN term' = term + 1 /\ pc' = "search"
       ELSE term' = 1 /\ pc' = "sweden"
    /\ UNCHANGED <<extractVars, rateVars, overlapVars, runs, trigger, upstream, handed, unique_df, final_df, emails, outcome,
                   db, db0, save_failed, reply, filterVars, storeVars, adapterVars>>

\* one pass of the loop over SWEDEN_TERMS
SwedenCall ==
    /\ pc = "sweden"
    /\ LET answer == upstream.sweden[term]
           jobs == SetColumn(SetColumn(FrameOf(answer.records), "search_term",
                                       SWEDEN_TERMS[term]),
                             "is_sweden_local", PyTrue)
       IN  all_jobs' = IF answer.ok THEN Append(all_jobs, jobs) ELSE all_jobs
    /\ IF term < MaxTerms
       THEN term' = term + 1 /\ pc' = "sweden"
       ELSE term' = 1 /\ pc' = "gate"
    /\ UNCHANGED <<extractVars, rateVars, overlapVars, runs, trigger, upstream, handed, unique_df, final_df, emails, outcome,
                   db, db0, save_failed, reply, filterVars, storeVars, adapterVars>>

\* if not all_jobs: return pd.DataFrame()
EmptyGate ==
    /\ pc = "gate"
    /\ IF all_jobs = <<>>
       THEN final_df' = EmptyFrame /\ pc' = "save"
       ELSE final_df' = final_df /\ pc' = "remote"
    /\ UNCHANGED <<extractVars, rateVars, overlapVars, runs, trigger, upstream, term, all_jobs, handed, unique_df, emails,
                   outcome, db, db0, save_failed, reply, filterVars, storeVars, adapterVars>>

\* the remote boards: a non-empty frame is renamed, tagged and appended; an
\* exception of fetch_all_remote_boards is printed
RemoteBoards ==
    /\ pc = "remote"
    /\ LET call == fetch_all_remote_boards(upstream.boards)
           remote_jobs_renamed ==
               SetColumn(SetColumn(Rename(call.frame, BOARD_NAMES),
                                   "search_term", <<"R", "e", "m", "o", "t", "e", " ", "B", "o", "a", "r", "d">>),
                         "is_remote_board", PyTrue)
       IN  all_jobs' = IF ~call.raised /\ ~IsEmpty(call.frame)
                       THEN Append(all_jobs, remote_jobs_renamed)
                       ELSE all_jobs
    /\ pc' = "combine"
    /\ UNCHANGED <<extractVars, rateVars, overlapVars, runs, trigger, upstream, term, handed, unique_df, final_df, emails,
                   outcome, db, db0, save_failed, reply, filterVars, storeVars, adapterVars>>

\* full_df = pd.concat(all_jobs); full_df.drop_duplicates(subset=['job_url']):
\* a KeyError when no frame has the column leaves scrape_and_filter_jobs and
\* reaches the except clause of the trigger
CombineAndDeduplicate ==
    /\ pc = "combine"
    /\ LET full_df == Concat(all_jobs)
       IN  /\ handed' = <<full_df>>
           /\ IF "job_url" \in full_df.cols
              THEN /\ unique_df' = DropDuplicates(full_df, "job_url")
                   /\ pc' = "filter"
                   /\ outcome' = outcome
              ELSE /\ unique_df' = unique_df
                   /\ pc' = "done"
                   /\ outcome' = TriggerExcept(trigger)
    /\ reply' = IF pc' = "done" THEN ResponseAtEnd(trigger, reply) ELSE reply
    /\ UNCHANGED <<extractVars, rateVars, overlapVars, runs, trigger, upstream, term, all_jobs, final_df,
                   emails, db, db0, save_failed, filterVars, storeVars, adapterVars>>

\* the filter loop, the column selection and the return of final_df
FilterJobsStep ==
    /\ pc = "filter"
    /\ final_df' = FilterAndSelect(unique_df)
    /\ pc' = "save"
    /\ UNCHANGED <<extractVars, rateVars, overlapVars, runs, trigger, upstream, term, all_jobs, handed, unique_df, emails,
                   outcome, db, db0, save_failed, reply, filterVars, storeVars, adapterVars>>

\* save_jobs_to_db(df), or final_df.to_csv(filename) in main: an exception of
\* the store leaves save_jobs_to_db before conn.commit() and reaches the except
\* clause of the trigger
SaveJobs ==
    /\ pc = "save"
    /\ \E store \in StoreOutcomes(trigger, final_df) :
        IF store = "failed"
        THEN /\ db' = db
             /\ save_failed' = TRUE
             /\ pc' = "done"
             /\ outcome' = TriggerExcept(trigger)
             /\ reply' = ResponseAtEnd(trigger, reply)
        ELSE /\ db' = IF trigger = "main" THEN db ELSE save_jobs_to_db(db, final_df)
             /\ save_failed' = FALSE
             /\ pc' = "notify"
             /\ outcome' = outcome
             /\ reply' = reply
    /\ UNCHANGED <<extractVars, rateVars, overlapVars, runs, trigger, upstream, term, all_jobs, handed,
                   unique_df, final_df, emails, db0, filterVars, storeVars, adapterVars>>

\* if not df.empty: send_email(df); the run is over
Notify ==
    /\ pc = "notify"
    /\ emails' = IF ShouldNotify(final_df) THEN emails + 1 ELSE emails
    /\ outcome' = "completed"
    /\ pc' = "done"
    /\ reply' = ResponseAtEnd(trigger, reply)
    /\ UNCHANGED <<extractVars, rateVars, overlapVars, runs, trigger, upstream, term, all_jobs, handed,
                   unique_df, final_df, db, db0, save_failed, filterVars, storeVars,
                   adapterVars>>

\* the trigger returns: the locals of the run are gone, the process waits for
\* the next trigger
Return ==
    /\ pc = "done"
    /\ outcome # "escaped"
    /\ pc' = "idle"
    /\ trigger' = "none"
    /\ upstream' = NoUpstream
    /\ term' = 1
    /\ all_jobs' = <<>>
    /\ handed' = <<>>
    /\ unique_df' = EmptyFrame
    /\ final_df' = EmptyFrame
    /\ emails' = 0
    /\ outcome' = "none"
    /\ db0' = db
    /\ save_failed' = FALSE
    /\ reply' = <<>>
    /\ UNCHANGED <<extractVars, rateVars, overlapVars, runs, db, filterVars, storeVars, adapterVars>>

\* the variables of the other specifications, at rest
FilterAtRest == job = <<>> /\ eu_result = <<>> /\ entry_result = <<>> /\ kept = <<>>

StoreAtRest ==
    saves = 0 /\ batch = <<>> /\ again = FALSE /\ db_once = InitialDb /\ save_result = <<>>

AdapterAtRest ==
    /\ calls = 0
    /\ called = "none"
    /\ fault = NoFault
    /\ call_result = Returned(EmptyFrame)
    /\ test_failed = FALSE
    /\ total_jobs = 0

RateAtRest ==
    /\ now = 0
    /\ last_called = 0
    /\ rl_pc = <<>>
    /\ wake = <<>>
    /\ starts = <<>>
    /\ raises = 0

OverlapAtRest ==
    save_df = <<>> /\ wpc = <<>> /\ wi = <<>> /\ lock = "none" /\ txn = InitialDb /\ seen = <<>>

ExtractAtRest == ex_adapter = "none" /\ ex_pages = <<>> /\ ex_jobs = <<>>

\* the process after init_db(), before any trigger
Init ==
    /\ InitPipe
    /\ db = InitialDb
    /\ FilterAtRest
    /\ RateAtRest
    /\ OverlapAtRest
    /\ StoreAtRest
    /\ AdapterAtRest
    /\ ExtractAtRest

Next ==
    \/ RunScraper
    \/ TriggerScrape
    \/ TriggerScrapeFails
    \/ MainScript
    \/ SearchCall
    \/ SwedenCall
    \/ EmptyGate
    \/ RemoteBoards
    \/ CombineAndDeduplicate
    \/ FilterJobsStep
    \/ SaveJobs
    \/ Notify
    \/ Return

Spec == Init /\ [][Next]_vars

(***************************************************************************)
(* SpecStore: save_jobs_to_db called on frames drawn from a bounded set    *)
(***************************************************************************)
MaxSaves == 2       \* calls of save_jobs_to_db with a fresh frame
MaxBatch == 2       \* rows of a saved frame

\* a row of the frame scrape_and_filter_jobs returns
ResultRow(title, company, url, date, location, source) ==
    BoardPosting(title, company, url, date, location, source)

\* rows of returned frames: two contents for the url u1, one for u2, one with
\* the empty url
SampleResultRows ==
    { ResultRow(<<"J", "u", "n", "i", "o", "r", " ", "D", "a", "t", "a", " ", "S", "c", "i", "e", "n", "t", "i", "s", "t">>, <<"A", "c", "m", "e">>, <<"u", "1">>, <<"d", "1">>, <<"U", "S", " ", "O", "n", "l", "y">>, <<"i", "n", "d", "e", "e", "d">>),
      ResultRow(<<"D", "a", "t", "a", " ", "I", "n", "t", "e", "r", "n">>, <<"R", "e", "m", "o", "t", "i", "v", "e">>, <<"u", "1">>, <<"d", "3">>, <<"R", "e", "m", "o", "t", "e">>, <<"R", "e", "m", "o", "t", "i", "v", "e">>),
      ResultRow(<<"T", "r", "a", "i", "n", "e", "e", " ", "D", "e", "v", "e", "l", "o", "p", "e", "r">>, <<"V", "o", "l", "v", "o">>, <<"u", "2">>, <<"d", "2">>, <<"S", "w", "e", "d", "e", "n", " ", "(", "U", "S", " ", "O", "n", "l", "y", ")">>, <<"l", "i", "n", "k", "e", "d", "i", "n">>),
      ResultRow(<<"G", "r", "a", "d", "u", "a", "t", "e", " ", "D", "e", "v", "e", "l", "o", "p", "e", "r">>, <<"J", "o", "b", "i", "c", "y">>, EmptyStr, <<"d", "4">>, <<"R", "e", "m", "o", "t", "e">>, <<"J", "o", "b", "i", "c", "y">>) }

RECURSIVE RowSeqs(_, _)
\* the sequences of at most n rows of the set
RowSeqs(rows, n) ==
    IF n = 0 THEN {<<>>}
    ELSE LET shorter == RowSeqs(rows, n - 1)
         IN  shorter \cup { Append(s, r) : s \in shorter, r \in rows }

\* the frames the pipeline can return: drop_duplicates has left one row per url
FilteredFrames ==
    { FrameOf(s) : s \in { q \in RowSeqs(SampleResultRows, MaxBatch) :
                             \A i, j \in 1..Len(q) : i # j => q[i]["Job URL"] # q[j]["Job URL"] } }

InitStore ==
    /\ db = InitialDb
    /\ StoreAtRest
    /\ InitPipe
    /\ FilterAtRest
    /\ RateAtRest
    /\ OverlapAtRest
    /\ AdapterAtRest
    /\ ExtractAtRest

\* save_jobs_to_db(df) with the frame of a run
SaveFrame ==
    /\ saves < MaxSaves
    /\ \E df \in FilteredFrames :
        /\ db' = save_jobs_to_db(db, df)
        /\ batch' = <<df>>
        /\ save_result' = <<save_jobs_to_db_returns(df)>>
    /\ saves' = saves + 1
    /\ again' = FALSE
    /\ db_once' = db_once
    /\ UNCHANGED <<extractVars, rateVars, overlapVars, filterVars, pipeVars, adapterVars>>

\* save_jobs_to_db(df) once more, with the frame just saved
SaveFrameAgain ==
    /\ batch # <<>>
    /\ ~again
    /\ db_once' = db
    /\ db' = save_jobs_to_db(db, batch[1])
    /\ save_result' = <<save_jobs_to_db_returns(batch[1])>>
    /\ again' = TRUE
    /\ UNCHANGED <<extractVars, rateVars, overlapVars, saves, batch, filterVars, pipeVars, adapterVars>>

NextStore == SaveFrame \/ SaveFrameAgain

SpecStore == InitStore /\ [][NextStore]_vars

(***************************************************************************)
(* SpecAdapter: the decorated adapters called one by one, as               *)
(* verify_full_system.py calls them                                        *)
(***************************************************************************)
MaxCalls == 2       \* adapter calls in one behaviour

\* the functions decorated with safe_scrape
REMOTE_ADAPTERS ==
    { "fetch_remotive_jobs", "fetch_weworkremotely_jobs", "fetch_remoteok_jobs",
      "fetch_himalayas_jobs", "fetch_jobicy_jobs", "fetch_euremote_jobs",
      "fetch_workingnomads_jobs", "fetch_remoterocketship_jobs", "fetch_justremote_jobs",
      "fetch_wellfound_jobs" }

SWEDISH_ADAPTERS ==
    { "fetch_arbetsformedlingen_jobs", "fetch_jobbsafari_jobs", "fetch_monsterse_jobs",
      "fetch_ledigajobb_jobs", "fetch_blocket_jobb", "fetch_karriarguiden_network",
      "fetch_careerjet_sweden", "fetch_akademikernas_jobs" }

\* what the source holds when the adapter is called
AdapterEntries == { <<>>, <<BoardPostingA, BoardPostingE>> }

\* a failure during the call: its kind, whether it hits inside the try block of
\* the adapter or outside it, and how many records were built before it
Faults(entries) ==
    {NoFault} \cup
    [kind : {"network", "shape", "parse"}, place : {"try", "outside"}, at : 0..Len(entries)]

\* the adapter function: an exception inside its try block is printed and the
\* records built so far are returned; an exception outside it leaves the function
AdapterRun(entries, f) ==
    IF f = NoFault THEN Yields(entries)
    ELSE IF f.place = "try" THEN Yields(SubSeq(entries, 1, f.at))
    ELSE Raises

InitAdapter ==
    /\ AdapterAtRest
    /\ ExtractAtRest
    /\ db = InitialDb
    /\ StoreAtRest
    /\ InitPipe
    /\ FilterAtRest
    /\ RateAtRest
    /\ OverlapAtRest

\* test_source(name, func): df = func(); count = len(df), or 0 when func raises
TestSource ==
    /\ calls < MaxCalls
    /\ \E a \in REMOTE_ADAPTERS \cup SWEDISH_ADAPTERS, entries \in AdapterEntries :
        \E f \in Faults(entries) :
            LET result == safe_scrape(AdapterBody(AdapterRun(entries, f)))
            IN  /\ called' = a
                /\ fault' = f
                /\ call_result' = result
                /\ test_failed' = (test_failed \/ result.raised)
                /\ total_jobs' = total_jobs + (IF result.raised THEN 0 ELSE Len(result.frame.rows))
    /\ calls' = calls + 1
    /\ UNCHANGED <<extractVars, rateVars, overlapVars, filterVars, pipeVars, db, storeVars>>

NextAdapter == TestSource

SpecAdapter == InitAdapter /\ [][NextAdapter]_vars

(***************************************************************************)
(* SpecRate: the wrapper of rate_limit(5) around one adapter function,     *)
(* called from the thread of the scheduler and from the thread of a manual *)
(* trigger                                                                 *)
(***************************************************************************)
RATE_SECONDS == 5       \* @rate_limit(5)
MaxTime == 6            \* seconds the clock runs on after the start
MaxInvocations == 3     \* calls of the wrapper in one behaviour

\* the threads that run the pipeline: APScheduler's, and the one trigger_scrape starts
Callers == {"run_scraper", "run_background_scrape"}

\* the argument of time.sleep, 0 when the wrapper does not sleep
SleepFor(elapsed) == IF elapsed < RATE_SECONDS THEN RATE_SECONDS - elapsed ELSE 0

\* time.time() is far beyond last_called[0] = 0.0 when the module is loaded
InitRate ==
    /\ now = RATE_SECONDS
    /\ last_called = 0
    /\ rl_pc = [c \in Callers |-> "out"]
    /\ wake = [c \in Callers |-> 0]
    /\ starts = <<>>
    /\ raises = 0
    /\ db = InitialDb
    /\ StoreAtRest
    /\ InitPipe
    /\ FilterAtRest
    /\ AdapterAtRest
    /\ ExtractAtRest
    /\ OverlapAtRest

\* calls of the wrapper begun so far
Invocations == Len(starts) + Cardinality({ c \in Callers : rl_pc[c] = "sleep" })

\* the wrapper is entered: elapsed is computed from last_called[0]; the caller
\* sleeps, or calls func at once
Invoke(c) ==
    /\ rl_pc[c] = "out"
    /\ Invocations < MaxInvocations
    /\ LET elapsed == now - last_called
       IN  IF SleepFor(elapsed) > 0
           THEN /\ rl_pc' = [rl_pc EXCEPT ![c] = "sleep"]
                /\ wake' = [wake EXCEPT ![c] = now + SleepFor(elapsed)]
                /\ starts' = starts
           ELSE /\ rl_pc' = [rl_pc EXCEPT ![c] = "func"]
                /\ wake' = wake
                /\ starts' = Append(starts, [by |-> c, at |-> now])
    /\ UNCHANGED <<extractVars, now, last_called, raises, filterVars, pipeVars, db, storeVars,
                   adapterVars, overlapVars>>

\* time.sleep is over, not before the time asked for: func is called
WakeUp(c) ==
    /\ rl_pc[c] = "sleep"
    /\ now >= wake[c]
    /\ rl_pc' = [rl_pc EXCEPT ![c] = "func"]
    /\ starts' = Append(starts, [by |-> c, at |-> now])
    /\ UNCHANGED <<extractVars, now, last_called, wake, raises, filterVars, pipeVars, db, storeVars,
                   adapterVars, overlapVars>>

\* func returns: last_called[0] = time.time(), return result
FuncReturns(c) ==
    /\ rl_pc[c] = "func"
    /\ last_called' = now
    /\ rl_pc' = [rl_pc EXCEPT ![c] = "out"]
    /\ UNCHANGED <<extractVars, now, wake, starts, raises, filterVars, pipeVars, db, storeVars,
                   adapterVars, overlapVars>>

\* func raises outside its try block: the wrapper is left before the
\* assignment to last_called[0]
FuncRaises(c) ==
    /\ rl_pc[c] = "func"
    /\ raises' = raises + 1
    /\ rl_pc' = [rl_pc EXCEPT ![c] = "out"]
    /\ UNCHANGED <<extractVars, now, last_called, wake, starts, filterVars, pipeVars, db, storeVars,
                   adapterVars, overlapVars>>

\* a second passes
Tick ==
    /\ now < RATE_SECONDS + MaxTime
    /\ now' = now + 1
    /\ UNCHANGED <<extractVars, last_called, rl_pc, wake, starts, raises, filterVars, pipeVars, db,
                   storeVars, adapterVars, overlapVars>>

NextRate ==
    \/ \E c \in Callers : Invoke(c)
    \/ \E c \in Callers : WakeUp(c)
    \/ \E c \in Callers : FuncReturns(c)
    \/ \E c \in Callers : FuncRaises(c)
    \/ Tick

SpecRate == InitRate /\ [][NextRate]_vars

(***************************************************************************)
(* SpecOverlap: a scheduled and a manually triggered run persist their     *)
(* filtered frames at the same time, each over its own connection          *)
(***************************************************************************)
\* a plausible slip: a connection opened with isolation_level=None, where
\* every execute is committed at once
VisibleAfterExecute_autocommit(committed, working) == working

\* what the file holds for other connections after one conn.execute of an open
\* transaction: sqlite3.connect(DB_FILE) leaves the implicit transaction on, so
\* the row stays in the writer's transaction until conn.commit()
VisibleAfterExecute(committed, working) == committed

\* a plausible slip: the batch written with df.to_sql('jobs', conn,
\* if_exists='replace'), which drops the table before it writes
TableAtFirstExecute_replaced(committed) == InitialDb

\* the table the first execute of a connection works on: the committed one;
\* nothing drops or empties the table before the INSERT OR REPLACE statements
TableAtFirstExecute(committed) == committed

\* save_jobs_to_db is called by both runs
InitOverlap ==
    /\ save_df \in [Callers -> FilteredFrames]
    /\ wpc = [c \in Callers |-> "call"]
    /\ wi = [c \in Callers |-> 1]
    /\ lock = "none"
    /\ db = InitialDb
    /\ txn = InitialDb
    /\ seen = <<>>
    /\ StoreAtRest
    /\ InitPipe
    /\ FilterAtRest
    /\ AdapterAtRest
    /\ ExtractAtRest
    /\ RateAtRest

\* if df.empty: return; else conn = sqlite3.connect(DB_FILE)
EnterSave(c) ==
    /\ wpc[c] = "call"
    /\ wpc' = [wpc EXCEPT ![c] = IF IsEmpty(save_df[c]) THEN "returned" ELSE "write"]
    /\ UNCHANGED <<extractVars, save_df, wi, lock, txn, seen, db, filterVars, pipeVars, storeVars,
                   adapterVars, rateVars>>

\* one conn.execute(INSERT OR REPLACE ...): the first one of a connection
\* opens its transaction and takes the write lock of the file, for which it
\* waits while the other connection holds it
WriteRow(c) ==
    /\ wpc[c] = "write"
    /\ lock \in {"none", c}
    /\ lock' = c
    /\ txn' = InsertOrReplace(IF lock = c THEN txn ELSE TableAtFirstExecute(db),
                               save_df[c].rows[wi[c]])
    /\ db' = VisibleAfterExecute(db, txn')
    /\ wi' = [wi EXCEPT ![c] = wi[c] + 1]
    /\ wpc' = [wpc EXCEPT ![c] = IF wi[c] = Len(save_df[c].rows) THEN "commit" ELSE "write"]
    /\ UNCHANGED <<extractVars, save_df, seen, filterVars, pipeVars, storeVars, adapterVars, rateVars>>

\* conn.execute raises (sqlite3.Error: a value that cannot be bound, a full
\* disk): the exception leaves save_jobs_to_db before conn.commit(), and the
\* connection is closed with its transaction rolled back
ExecuteRaises(c) ==
    /\ wpc[c] = "write"
    /\ lock \in {"none", c}
    /\ lock' = "none"
    /\ txn' = db
    /\ wpc' = [wpc EXCEPT ![c] = "raised"]
    /\ UNCHANGED <<extractVars, save_df, wi, seen, db, filterVars, pipeVars, storeVars, adapterVars,
                   rateVars>>

\* conn.commit(); conn.close(); print(...)
Commit(c) ==
    /\ wpc[c] = "commit"
    /\ lock' = "none"
    /\ db' = txn
    /\ wpc' = [wpc EXCEPT ![c] = "returned"]
    /\ UNCHANGED <<extractVars, save_df, wi, txn, seen, filterVars, pipeVars, storeVars, adapterVars,
                   rateVars>>

\* get_jobs_from_db in a request thread: the SELECT reads what is committed;
\* the second component is the run whose transaction was open at that moment
ReadJobs ==
    /\ seen = <<>>
    /\ seen' = <<db.jobs, lock>>
    /\ UNCHANGED <<extractVars, save_df, wpc, wi, lock, txn, db, filterVars, pipeVars, storeVars,
                   adapterVars, rateVars>>

NextOverlap ==
    \/ \E c \in Callers : EnterSave(c)
    \/ \E c \in Callers : WriteRow(c)
    \/ \E c \in Callers : ExecuteRaises(c)
    \/ \E c \in Callers : Commit(c)
    \/ ReadJobs

SpecOverlap == InitOverlap /\ [][NextOverlap]_vars

(***************************************************************************)
(* SpecScenario: runs in which two remote boards are the only sources with *)
(* postings; the first fails while it builds its records                   *)
(***************************************************************************)
\* what the feed of the first board holds
EntriesA ==
    << BoardPosting(<<"D", "a", "t", "a", " ", "A", "n", "a", "l", "y", "s", "t">>, <<"R", "e", "m", "o", "t", "i", "v", "e">>, <<"u", "3">>, <<"d", "5">>, <<"R", "e", "m", "o", "t", "e">>, <<"R", "e", "m", "o", "t", "i", "v", "e">>),
       BoardPosting(<<"B", "a", "c", "k", "e", "n", "d", " ", "D", "e", "v", "e", "l", "o", "p", "e", "r">>, <<"R", "e", "m", "o", "t", "i", "v", "e">>, <<"u", "4">>, <<"d", "5">>, <<"R", "e", "m", "o", "t", "e">>, <<"R", "e", "m", "o", "t", "i", "v", "e">>),
       BoardPosting(<<"S", "u", "p", "p", "o", "r", "t", " ", "A", "g", "e", "n", "t">>, <<"R", "e", "m", "o", "t", "i", "v", "e">>, <<"u", "5">>, <<"d", "5">>, <<"R", "e", "m", "o", "t", "e">>, <<"R", "e", "m", "o", "t", "i", "v", "e">>) >>

\* what the second board returns: the url u4 again, and a Director
EntriesB ==
    << BoardPosting(<<"B", "a", "c", "k", "e", "n", "d", " ", "D", "e", "v", "e", "l", "o", "p", "e", "r">>, <<"J", "o", "b", "i", "c", "y">>, <<"u", "4">>, <<"d", "6">>, <<"R", "e", "m", "o", "t", "e">>, <<"J", "o", "b", "i", "c", "y">>),
       BoardPosting(<<"D", "i", "r", "e", "c", "t", "o", "r", " ", "o", "f", " ", "E", "n", "g", "i", "n", "e", "e", "r", "i", "n", "g">>, <<"J", "o", "b", "i", "c", "y">>, <<"u", "6">>, <<"d", "6">>, <<"R", "e", "m", "o", "t", "e">>, <<"J", "o", "b", "i", "c", "y">>),
       BoardPosting(<<"Q", "A", " ", "T", "e", "s", "t", "e", "r">>, <<"J", "o", "b", "i", "c", "y">>, <<"u", "7">>, <<"d", "6">>, <<"R", "e", "m", "o", "t", "e">>, <<"J", "o", "b", "i", "c", "y">>) >>

\* the first board's call: an exception inside its try block once f.at
\* records are built; the other boards after the second return no entry
ScenarioBoards(f) ==
    [b \in 1..MaxBoards |->
        IF b = 1 THEN AdapterRun(EntriesA, f)
        ELSE IF b = 2 THEN Yields(EntriesB)
        ELSE Yields(<<>>)]

\* every scrape_jobs call raises or finds no job
ScenarioUpstreams ==
    { [search |-> s, sweden |-> w, boards |-> ScenarioBoards(f)] :
        s \in [1..MaxTerms -> {Raises, Yields(<<>>)}],
        w \in [1..MaxTerms -> {Raises, Yields(<<>>)}],
        f \in { g \in Faults(EntriesA) : g.place = "try" } }

\* run_scraper or trigger_scrape with these sources
ScenarioRun == \E kind \in Callers : StartRunFrom(kind, ScenarioUpstreams)

NextScenario ==
    \/ ScenarioRun
    \/ SearchCall
    \/ SwedenCall
    \/ EmptyGate
    \/ RemoteBoards
    \/ CombineAndDeduplicate
    \/ FilterJobsStep
    \/ SaveJobs
    \/ Notify
    \/ Return

SpecScenario == Init /\ [][NextScenario]_vars

(***************************************************************************)
(* SpecExtract: one call of an adapter function, entry by entry            *)
(***************************************************************************)
MaxEntries == 21        \* entries one request is answered with

\* an adapter function: its transport, the requests of one call, the number of
\* entries it means to take of each answer, whether it slices the answer to
\* that number itself, whether the extraction of one entry has a try of its
\* own, and whether it builds records at all
AdapterShape(transport, requests, cap, sliced, entry_try, builds) ==
    [transport |-> transport, requests |-> requests, cap |-> cap, sliced |-> sliced,
     entry_try |-> entry_try, builds |-> builds]

ADAPTERS ==
    [a \in REMOTE_ADAPTERS \cup SWEDISH_ADAPTERS |->
        CASE a = "fetch_remotive_jobs" -> AdapterShape("feed", 1, 20, TRUE, FALSE, TRUE)
          [] a = "fetch_weworkremotely_jobs" -> AdapterShape("feed", 3, 10, TRUE, FALSE, TRUE)
          [] a = "fetch_remoteok_jobs" -> AdapterShape("markup", 1, 20, TRUE, TRUE, TRUE)
          [] a = "fetch_himalayas_jobs" -> AdapterShape("markup", 1, 20, TRUE, TRUE, TRUE)
          [] a = "fetch_jobicy_jobs" -> AdapterShape("api", 1, 20, FALSE, FALSE, TRUE)
          [] a = "fetch_euremote_jobs" -> AdapterShape("feed", 1, 20, TRUE, FALSE, TRUE)
          [] a = "fetch_workingnomads_jobs" -> AdapterShape("feed", 1, 15, TRUE, FALSE, TRUE)
          [] a = "fetch_remoterocketship_jobs" -> AdapterShape("feed", 1, 15, TRUE, FALSE, TRUE)
          [] a = "fetch_justremote_jobs" -> AdapterShape("markup", 1, 15, TRUE, TRUE, TRUE)
          [] a = "fetch_wellfound_jobs" -> AdapterShape("markup", 1, 10, TRUE, TRUE, TRUE)
          [] a = "fetch_arbetsformedlingen_jobs" -> AdapterShape("api", 1, 20, FALSE, FALSE, FALSE)
          [] a = "fetch_jobbsafari_jobs" -> AdapterShape("markup", 1, 15, TRUE, TRUE, TRUE)
          [] a = "fetch_monsterse_jobs" -> AdapterShape("markup", 1, 15, TRUE, TRUE, TRUE)
          [] a = "fetch_ledigajobb_jobs" -> AdapterShape("markup", 1, 15, TRUE, TRUE, TRUE)
          [] a = "fetch_blocket_jobb" -> AdapterShape("markup", 1, 15, TRUE, TRUE, TRUE)
          [] a = "fetch_karriarguiden_network" -> AdapterShape("markup", 3, 10, TRUE, TRUE, TRUE)
          [] a = "fetch_careerjet_sweden" -> AdapterShape("markup", 1, 15, TRUE, TRUE, TRUE)
          [] OTHER -> AdapterShape("markup", 1, 10, TRUE, TRUE, TRUE)]

\* an answer of n entries to request p, the entry at position bad malformed
\* (bad = 0: none)
AnswerOf(p, n, bad) ==
    [i \in 1..n |-> [id |-> <<p, i>>, shape |-> IF i = bad THEN "malformed" ELSE "ok"]]

\* the record built of an entry
RecordOf(entry) == [id |-> entry.id, complete |-> entry.shape = "ok"]

\* the extraction of the entry raises: entry.get of a feed entry falls back on
\* its default; job.get of a JSON value that is no object and link['href'] of
\* an element without href raise
ExtractionRaises(shape, entry) == entry.shape = "malformed" /\ shape.transport # "feed"

\* entries[:cap], or the whole answer where the adapter takes no slice
Sliced(shape, entries) ==
    IF shape.sliced /\ Len(entries) > shape.cap THEN SubSeq(entries, 1, shape.cap) ELSE entries

RECURSIVE ExtractLoop(_, _, _, _)
\* the for loop over the entries of one answer: an exception of one entry is
\* passed over where the loop body has its own try, and ends the loop where
\* only the try around the request catches it
ExtractLoop(shape, entries, i, jobs) ==
    IF i > Len(entries) THEN jobs
    ELSE IF ExtractionRaises(shape, entries[i])
         THEN IF shape.entry_try THEN ExtractLoop(shape, entries, i + 1, jobs) ELSE jobs
         ELSE ExtractLoop(shape, entries, i + 1, Append(jobs, RecordOf(entries[i])))

RECURSIVE ExtractPages(_, _, _, _)
\* the requests of one call, one after the other, all appending to jobs
ExtractPages(shape, pages, p, jobs) ==
    IF p > Len(pages) THEN jobs
    ELSE ExtractPages(shape, pages, p + 1, ExtractLoop(shape, Sliced(shape, pages[p]), 1, jobs))

\* the adapter function: jobs = [] ... return pd.DataFrame(jobs)
AdapterJobs(shape, pages) == IF shape.builds THEN ExtractPages(shape, pages, 1, <<>>) ELSE <<>>

InitExtract ==
    /\ ExtractAtRest
    /\ db = InitialDb
    /\ StoreAtRest
    /\ InitPipe
    /\ FilterAtRest
    /\ AdapterAtRest
    /\ RateAtRest
    /\ OverlapAtRest

\* one adapter is called; every request is answered with n entries, and one
\* entry of one answer may be malformed
CallAdapter ==
    /\ ex_adapter = "none"
    /\ \E a \in REMOTE_ADAPTERS \cup SWEDISH_ADAPTERS, n \in 0..MaxEntries :
        \E bad \in 0..n, q \in 1..ADAPTERS[a].requests :
            LET pages == [p \in 1..ADAPTERS[a].requests |->
                             AnswerOf(p, n, IF p = q THEN bad ELSE 0)]
            IN  /\ ex_adapter' = a
                /\ ex_pages' = pages
                /\ ex_jobs' = AdapterJobs(ADAPTERS[a], pages)
    /\ UNCHANGED <<filterVars, pipeVars, db, storeVars, adapterVars, rateVars, overlapVars>>

NextExtract == CallAdapter

SpecExtract == InitExtract /\ [][NextExtract]_vars

(***************************************************************************)
(* SpecFilter: the classifiers applied to records drawn from bounded sets  *)
(***************************************************************************)
MaxTitleWords == 2

\* a key the record does not have
Absent == <<"absent">>

(* words of sample titles: Senior; JUNIOR; Data; Internal; Misleading *)
TitleVocabulary ==
    { <<"S", "e", "n", "i", "o", "r">>,
      <<"J", "U", "N", "I", "O", "R">>,
      <<"D", "a", "t", "a">>,
      <<"I", "n", "t", "e", "r", "n", "a", "l">>,
      <<"M", "i", "s", "l", "e", "a", "d", "i", "n", "g">> }

RECURSIVE Phrases(_, _)
\* the texts of at most n words of the vocabulary, joined by single spaces
Phrases(vocabulary, n) ==
    IF n = 0 THEN {EmptyStr}
    ELSE LET shorter == Phrases(vocabulary, n - 1)
         IN  shorter \cup
             { IF p = EmptyStr THEN w ELSE p \o <<" ">> \o w : p \in shorter, w \in vocabulary }

SampleTitles == Phrases(TitleVocabulary, MaxTitleWords)

(* Remote; US Only; Bonus only; Austin, USA; Stockholm, Sweden; Must reside in US *)
SampleLocations ==
    { <<"R", "e", "m", "o", "t", "e">>,
      <<"U", "S", " ", "O", "n", "l", "y">>,
      <<"B", "o", "n", "u", "s", " ", "o", "n", "l", "y">>,
      <<"A", "u", "s", "t", "i", "n", ",", " ", "U", "S", "A">>,
      <<"S", "t", "o", "c", "k", "h", "o", "l", "m", ",", " ", "S", "w", "e", "d", "e", "n">>,
      <<"M", "u", "s", "t", " ", "r", "e", "s", "i", "d", "e", " ", "i", "n", " ", "U", "S">> }
        \cup {Absent}

(* Join our team; 5+ years of practice; Recent graduate welcome; Must reside in US; Office in Canada; GREEN CARD needed *)
SampleDescriptions ==
    { <<"J", "o", "i", "n", " ", "o", "u", "r", " ", "t", "e", "a", "m">>,
      <<"5", "+", " ", "y", "e", "a", "r", "s", " ", "o", "f", " ", "p", "r", "a", "c", "t", "i", "c", "e">>,
      <<"R", "e", "c", "e", "n", "t", " ", "g", "r", "a", "d", "u", "a", "t", "e", " ", "w", "e", "l", "c", "o", "m", "e">>,
      <<"M", "u", "s", "t", " ", "r", "e", "s", "i", "d", "e", " ", "i", "n", " ", "U", "S">>,
      <<"O", "f", "f", "i", "c", "e", " ", "i", "n", " ", "C", "a", "n", "a", "d", "a">>,
      <<"G", "R", "E", "E", "N", " ", "C", "A", "R", "D", " ", "n", "e", "e", "d", "e", "d">> }
        \cup {Absent, NaN}

\* the dict / Series with the keys that are not Absent
JobOf(title, location, description) ==
    LET keys == {"title"} \cup (IF location = Absent THEN {} ELSE {"location"})
                          \cup (IF description = Absent THEN {} ELSE {"description"})
    IN  [k \in keys |-> CASE k = "title" -> title
                          [] k = "location" -> location
                          [] OTHER -> description]

FilterJobs ==
    { JobOf(t, l, d) : t \in SampleTitles, l \in SampleLocations, d \in SampleDescriptions }

InitFilter ==
    /\ job \in FilterJobs
    /\ eu_result = <<>>
    /\ entry_result = <<>>
    /\ kept = <<>>
    /\ InitPipe
    /\ db = InitialDb
    /\ StoreAtRest
    /\ AdapterAtRest
    /\ ExtractAtRest
    /\ RateAtRest
    /\ OverlapAtRest

\* is_eu_friendly(job) is called and its value kept
CheckLocation ==
    /\ eu_result = <<>>
    /\ eu_result' = <<is_eu_friendly(job)>>
    /\ UNCHANGED <<extractVars, rateVars, overlapVars, job, entry_result, kept, pipeVars, db, storeVars, adapterVars>>

\* is_entry_level(job) is called and its value kept
CheckSeniority ==
    /\ entry_result = <<>>
    /\ entry_result' = <<is_entry_level(job)>>
    /\ UNCHANGED <<extractVars, rateVars, overlapVars, job, eu_result, kept, pipeVars, db, storeVars, adapterVars>>

NextFilter == CheckLocation \/ CheckSeniority

SpecFilter == InitFilter /\ [][NextFilter]_vars

(***************************************************************************)
(* SpecKeep: the body of the filter loop applied to one record, and to the *)
(* postings of verify_filtering.py                                         *)
(***************************************************************************)
KeepTitles ==
    { <<"S", "e", "n", "i", "o", "r", " ", "D", "e", "v", "e", "l", "o", "p", "e", "r">>, <<"J", "u", "n", "i", "o", "r", " ", "D", "e", "v", "e", "l", "o", "p", "e", "r">>, <<"D", "e", "v", "e", "l", "o", "p", "e", "r">>, <<"T", "e", "a", "m", " ", "L", "e", "a", "d">> }

KeepDescriptions ==
    { <<"J", "o", "i", "n", " ", "o", "u", "r", " ", "t", "e", "a", "m">>, <<"5", "+", " ", "y", "e", "a", "r", "s", " ", "o", "f", " ", "p", "r", "a", "c", "t", "i", "c", "e">>, NaN }

KeepLocations ==
    { <<"R", "e", "m", "o", "t", "e">>, <<"U", "S", " ", "O", "n", "l", "y">>, <<"S", "t", "o", "c", "k", "h", "o", "l", "m", ",", " ", "S", "w", "e", "d", "e", "n">> }

\* a flag cell: the column is not in the frame, the row's own source did not
\* set it (nan after pd.concat), or it is True
FlagValues == {Absent, NaN, PyTrue}

\* a row of full_df, with the flag columns that are not Absent
RowOf(title, location, description, sweden, remote) ==
    LET keys == {"title", "location", "description"}
                    \cup (IF sweden = Absent THEN {} ELSE {"is_sweden_local"})
                    \cup (IF remote = Absent THEN {} ELSE {"is_remote_board"})
    IN  [k \in keys |-> CASE k = "title" -> title
                          [] k = "location" -> location
                          [] k = "description" -> description
                          [] k = "is_sweden_local" -> sweden
                          [] OTHER -> remote]

KeepJobs ==
    { RowOf(t, l, d, sw, rb) : t \in KeepTitles, l \in KeepLocations, d \in KeepDescriptions,
                               sw \in FlagValues, rb \in FlagValues }

\* the postings of the filtering test and the value it expects for each
test_jobs ==
    << [title |-> <<"J", "u", "n", "i", "o", "r", " ", "D", "a", "t", "a", " ", "S", "c", "i", "e", "n", "t", "i", "s", "t">>, expected |-> TRUE],
       [title |-> <<"S", "o", "f", "t", "w", "a", "r", "e", " ", "T", "e", "s", "t", "i", "n", "g", " ", "E", "n", "g", "i", "n", "e", "e", "r">>, expected |-> TRUE],
       [title |-> <<"T", "e", "s", "t", " ", "A", "u", "t", "o", "m", "a", "t", "i", "o", "n", " ", "E", "n", "g", "i", "n", "e", "e", "r">>, expected |-> TRUE],
       [title |-> <<"B", "a", "c", "k", "-", "E", "n", "d", " ", "E", "n", "g", "i", "n", "e", "e", "r">>, expected |-> TRUE],
       [title |-> <<"D", "a", "t", "a", " ", "S", "o", "f", "t", "w", "a", "r", "e", " ", "E", "n", "g", "i", "n", "e", "e", "r">>, expected |-> TRUE],
       [title |-> <<"D", "e", "v", "O", "p", "s", " ", "E", "n", "g", "i", "n", "e", "e", "r">>, expected |-> TRUE],
       [title |-> <<"M", "L", "O", "p", "s", " ", "E", "n", "g", "i", "n", "e", "e", "r">>, expected |-> TRUE],
       [title |-> <<"F", "r", "o", "n", "t", "e", "n", "d", " ", "D", "e", "v", "e", "l", "o", "p", "e", "r">>, expected |-> FALSE],
       [title |-> <<"F", "u", "l", "l", " ", "S", "t", "a", "c", "k", " ", "D", "e", "v", "e", "l", "o", "p", "e", "r">>, expected |-> FALSE],
       [title |-> <<"P", "r", "o", "j", "e", "c", "t", " ", "M", "a", "n", "a", "g", "e", "r">>, expected |-> FALSE],
       [title |-> <<"D", "a", "t", "a", " ", "A", "n", "a", "l", "y", "s", "t">>, expected |-> FALSE],
       [title |-> <<"G", "e", "n", "e", "r", "a", "l", " ", "S", "o", "f", "t", "w", "a", "r", "e", " ", "E", "n", "g", "i", "n", "e", "e", "r">>, expected |-> FALSE],
       [title |-> <<"S", "a", "l", "e", "s", " ", "D", "e", "v", "e", "l", "o", "p", "m", "e", "n", "t", " ", "R", "e", "p">>, expected |-> FALSE],
       [title |-> <<"S", "e", "n", "i", "o", "r", " ", "D", "e", "v", "O", "p", "s", " ", "E", "n", "g", "i", "n", "e", "e", "r">>, expected |-> FALSE],
       [title |-> <<"P", "r", "o", "d", "u", "c", "t", " ", "M", "a", "n", "a", "g", "e", "r">>, expected |-> FALSE],
       [title |-> <<"H", "R", " ", "M", "a", "n", "a", "g", "e", "r">>, expected |-> FALSE] >>

\* the dicts the test hands to the filter: a title and nothing else
TestJobs == { JobOf(test_jobs[i].title, Absent, Absent) : i \in 1..Len(test_jobs) }

InitKeep ==
    /\ job \in KeepJobs \cup TestJobs
    /\ eu_result = <<>>
    /\ entry_result = <<>>
    /\ kept = <<>>
    /\ InitPipe
    /\ db = InitialDb
    /\ StoreAtRest
    /\ RateAtRest
    /\ OverlapAtRest
    /\ AdapterAtRest
    /\ ExtractAtRest

\* one pass of the loop body: the record is appended to filtered_jobs or not
FilterRow ==
    /\ kept = <<>>
    /\ kept' = <<KeepRow(job)>>
    /\ UNCHANGED <<extractVars, rateVars, overlapVars, job, eu_result, entry_result, pipeVars, db,
                   storeVars, adapterVars>>

NextKeep == FilterRow

SpecKeep == InitKeep /\ [][NextKeep]_vars

(***************************************************************************)
(* Properties of the classifiers                                           *)
(***************************************************************************)
\* the text str(record.get(key, '')) the classifiers read
FieldText(record, key) == PyStr(Get(record, key, EmptyStr))

\* entry occurs in text as a substring, letters compared regardless of case
OccursIn(entry, text) ==
    \E i \in 0..(Len(text) - Len(entry)) :
        \A j \in 1..Len(entry) : LowerChar(text[i + j]) = LowerChar(entry[j])

\* C5 as claimed: is_eu_friendly excludes the record exactly when any entry of
\* either exclusion list occurs in its location text or in its description text.
C5_AnyEntryInEitherField ==
    eu_result # <<>> =>
        (eu_result[1] = FALSE <=>
            \E e \in SeqRange(US_LOCATIONS_TO_EXCLUDE) \cup SeqRange(US_KEYWORDS_TO_EXCLUDE) :
                OccursIn(e, FieldText(job, "location")) \/ OccursIn(e, FieldText(job, "description")))

\* C5 amended: is_eu_friendly excludes the record exactly when a location name of
\* US_LOCATIONS_TO_EXCLUDE occurs in its location text or a phrase of
\* US_KEYWORDS_TO_EXCLUDE occurs in its description text.
C5_NamesInLocationPhrasesInDescription ==
    eu_result # <<>> =>
        (eu_result[1] = FALSE <=>
            \/ \E e \in SeqRange(US_LOCATIONS_TO_EXCLUDE) : OccursIn(e, FieldText(job, "location"))
            \/ \E e \in SeqRange(US_KEYWORDS_TO_EXCLUDE) : OccursIn(e, FieldText(job, "description")))

\* a record excluded by a location name in upper/lower case other than the list's
C5_Witness ==
    /\ eu_result = <<FALSE>>
    /\ \E e \in SeqRange(US_LOCATIONS_TO_EXCLUDE) :
           OccursIn(e, FieldText(job, "location")) /\ ~Contains(e, FieldText(job, "location"))

\* C6: a record whose title or description contains a seniority-exclusion entry is
\* rejected by is_entry_level, whatever entry-level keywords it also contains.
C6_SeniorityExclusionWins ==
    (entry_result # <<>> /\
     \E e \in SeqRange(EXPERIENCE_KEYWORDS_TO_EXCLUDE) :
        OccursIn(e, FieldText(job, "title")) \/ OccursIn(e, FieldText(job, "description")))
    => entry_result[1] = FALSE

\* a rejected record that holds both "senior" and "junior" in its title
C6_Witness ==
    /\ entry_result = <<FALSE>>
    /\ OccursIn(<<"s", "e", "n", "i", "o", "r">>, FieldText(job, "title"))
    /\ OccursIn(<<"j", "u", "n", "i", "o", "r">>, FieldText(job, "title"))

\* C7: a record with no seniority-exclusion entry and no entry-level keyword in its
\* title and description is accepted by is_entry_level.
C7_PermissiveFallback ==
    (entry_result # <<>> /\
     \A e \in SeqRange(EXPERIENCE_KEYWORDS_TO_EXCLUDE) \cup SeqRange(ENTRY_LEVEL_POSITIVE) :
        ~OccursIn(e, FieldText(job, "title")) /\ ~OccursIn(e, FieldText(job, "description")))
    => entry_result[1] = TRUE

\* an accepted record with a non-empty title and no keyword of either list
C7_Witness ==
    /\ entry_result = <<TRUE>>
    /\ FieldText(job, "title") # EmptyStr
    /\ \A e \in SeqRange(EXPERIENCE_KEYWORDS_TO_EXCLUDE) \cup SeqRange(ENTRY_LEVEL_POSITIVE) :
        ~OccursIn(e, FieldText(job, "title")) /\ ~OccursIn(e, FieldText(job, "description"))

(***************************************************************************)
(* Properties of the pipeline run                                          *)
(***************************************************************************)
\* the six fields of a posting, whatever the names of its keys
Canonical(p) ==
    IF "Job Title" \in DOMAIN p
    THEN [title |-> p["Job Title"], company |-> p["Company"], job_url |-> p["Job URL"],
          date_posted |-> p["Date Posted"], location |-> p["Location"], site |-> p["Source"]]
    ELSE [title |-> p["title"], company |-> p["company"], job_url |-> p["job_url"],
          date_posted |-> p["date_posted"], location |-> p["location"], site |-> p["site"]]

\* the postings of the sources that do not fail during the run
HealthyPostings(u) ==
    UNION { { Canonical(r) : r \in SeqRange(u.search[i].records) } : i \in DOMAIN u.search }
    \cup UNION { { Canonical(r) : r \in SeqRange(u.sweden[i].records) } : i \in DOMAIN u.sweden }
    \cup UNION { { Canonical(r) : r \in SeqRange(u.boards[i].records) } : i \in DOMAIN u.boards }

AllSourcesFail(u) ==
    /\ \A i \in DOMAIN u.search : ~u.search[i].ok
    /\ \A i \in DOMAIN u.sweden : ~u.sweden[i].ok
    /\ \A i \in DOMAIN u.boards : ~u.boards[i].ok

\* scrape_and_filter_jobs is past the point where it combines all_jobs
PastCombine == pc \in {"filter", "save", "notify", "done"}

\* C1: every posting returned by a source that did not fail is in the combined
\* working set handed to deduplication, whichever sources failed.
C1_HealthySourcesReachWorkingSet ==
    PastCombine =>
        \A p \in HealthyPostings(upstream) :
            /\ handed # <<>>
            /\ \E i \in 1..Len(handed[1].rows) : Canonical(handed[1].rows[i]) = p

\* C2: when every source fails, the run ends with an empty result, send_email
\* is not called, the store is not written and no exception leaves the trigger.
C2_AllSourcesFailQuietly ==
    (pc # "idle" /\ AllSourcesFail(upstream)) =>
        /\ emails = 0
        /\ db = db0
        /\ outcome \in {"running", "completed"}
        /\ (pc \in {"save", "notify", "done"} => IsEmpty(final_df))
        /\ (pc = "done" => outcome = "completed")

\* a finished run in which every source failed
C2_Witness ==
    /\ pc = "done"
    /\ AllSourcesFail(upstream)
    /\ outcome = "completed"

\* the row carries one of the two flags
Flagged(row) ==
    \/ Get(row, "is_sweden_local", PyFalse) = PyTrue
    \/ Get(row, "is_remote_board", PyFalse) = PyTrue

InFinal(row) == \E k \in 1..Len(final_df.rows) : final_df.rows[k]["Job URL"] = row["job_url"]

\* C4: a record whose location contains "US Only" is absent from the final set
\* when it carries neither flag, and is not removed by the location check when
\* it carries one.
C4_UsOnlyExcludedUnlessFlagged ==
    (pc = "done" /\ outcome = "completed" /\ handed # <<>>) =>
        \A i \in 1..Len(unique_df.rows) :
            LET row == unique_df.rows[i]
            IN  Contains(<<"U", "S", " ", "O", "n", "l", "y">>, PyStr(Get(row, "location", EmptyStr))) =>
                    IF Flagged(row)
                    THEN is_entry_level(row) => InFinal(row)
                    ELSE ~InFinal(row)

\* the index of the first row of the sequence with the url
FirstIndex(rows, url) ==
    CHOOSE i \in 1..Len(rows) :
        rows[i]["job_url"] = url /\ \A j \in 1..(i - 1) : rows[j]["job_url"] # url

Deduplicated == PastCombine /\ handed # <<>> /\ outcome # "caught"

\* C8: deduplication leaves, for every non-empty url of the working sequence,
\* exactly one record, the first of that url, in the order of first occurrence.
C8_FirstOccurrencePerUrl ==
    Deduplicated =>
        LET input == handed[1].rows
            output == unique_df.rows
            urls(rows) == { rows[i]["job_url"] : i \in 1..Len(rows) } \ {EmptyStr}
        IN  /\ urls(output) = urls(input)
            /\ \A u \in urls(input) :
                 /\ Cardinality({ k \in 1..Len(output) : output[k]["job_url"] = u }) = 1
                 /\ \E k \in 1..Len(output) : output[k] = input[FirstIndex(input, u)]
            /\ \A k1, k2 \in 1..Len(output) :
                 (/\ k1 < k2
                  /\ output[k1]["job_url"] # EmptyStr
                  /\ output[k2]["job_url"] # EmptyStr)
                 => FirstIndex(input, output[k1]["job_url"]) < FirstIndex(input, output[k2]["job_url"])

\* a working sequence in which a non-empty url occurs twice with different titles
C8_Witness ==
    /\ Deduplicated
    /\ \E i, j \in 1..Len(handed[1].rows) :
        /\ i < j
        /\ handed[1].rows[i]["job_url"] = handed[1].rows[j]["job_url"]
        /\ handed[1].rows[i]["job_url"] # EmptyStr
        /\ handed[1].rows[i]["title"] # handed[1].rows[j]["title"]
    /\ Len(unique_df.rows) >= 2

\* C9: no stored row has an empty url.
C9_NoStoredEmptyUrl == \A r \in db.jobs : r.job_url # EmptyStr

(***************************************************************************)
(* Properties of the store                                                 *)
(***************************************************************************)
\* the url-to-fields mapping of the stored rows
StoredMapping(table) ==
    { [job_url |-> r.job_url, title |-> r.title, company |-> r.company,
       date_posted |-> r.date_posted, location |-> r.location, source |-> r.source] :
      r \in table.jobs }

\* C10: saving the same frame twice in succession leaves as many rows, and the
\* same fields for every url, as saving it once.
C10_SaveTwiceSameAsOnce ==
    again =>
        /\ Cardinality(db.jobs) = Cardinality(db_once.jobs)
        /\ StoredMapping(db) = StoredMapping(db_once)

\* a second save of a frame of two rows onto a store that held other rows before
C10_Witness ==
    /\ again
    /\ Len(batch[1].rows) = 2
    /\ Cardinality(db.jobs) > 2
    /\ db # db_once

(***************************************************************************)
(* Properties of the adapters                                              *)
(***************************************************************************)
\* C3: whatever fails inside an adapter, the call returns a frame (possibly
\* empty) to its caller and raises nothing past the adapter boundary.
C3_AdapterNeverRaises ==
    calls > 0 =>
        /\ ~call_result.raised
        /\ ~test_failed
        /\ (fault.place = "outside" => call_result.frame = EmptyFrame)
        /\ (fault.place = "try" => Len(call_result.frame.rows) = fault.at)

\* a call hit by a network error outside the adapter's own try block
C3_Witness ==
    /\ calls > 0
    /\ fault.kind = "network"
    /\ fault.place = "outside"
    /\ call_result = Returned(EmptyFrame)

(***************************************************************************)
(* Claims about the store                                                  *)
(***************************************************************************)
\* the stored row of a url
StoredRow(table, url) == CHOOSE r \in table.jobs : r.job_url = url

\* the urls a frame writes
UrlsOf(df) == { df.rows[i]["Job URL"] : i \in 1..Len(df.rows) }

\* C11: when save_jobs_to_db writes a posting whose url already has a stored
\* row, the id of that row is the same before and after the write
C11_OverwriteKeepsIdentity ==
    again =>
        \A url \in UrlsOf(batch[1]) :
            \E before \in db_once.jobs, after \in db.jobs :
                before.job_url = url /\ after.job_url = url /\ after.id = before.id

\* C20: save_jobs_to_db returns the count of records it processed, n for a
\* frame of n postings and 0 for an empty one
C20_ReturnsCountProcessed ==
    batch # <<>> =>
        /\ save_result[1] # PyNone
        /\ save_result = <<PyInt(Len(batch[1].rows))>>

(***************************************************************************)
(* Claims about the triggers                                               *)
(***************************************************************************)
\* the run of the trigger is over
RunOver == pc = "done"

\* C12: a failure of the store while the filtered set is persisted is
\* surfaced to the caller of run_scraper / run_background_scrape: the
\* exception leaves the trigger instead of being caught
C12_PersistenceFailureSurfaces ==
    (RunOver /\ save_failed /\ trigger \in {"run_scraper", "run_background_scrape"}) =>
        outcome = "escaped"

\* C13: an exception other than a persistence failure during a scheduled run
\* is caught by run_scraper: zero results, nothing persisted, no
\* notification, and the process can go on to later runs
C13_OtherExceptionsCaught ==
    /\ (trigger = "run_scraper" /\ RunOver /\ outcome # "completed" /\ ~save_failed) =>
            /\ outcome = "caught"
            /\ IsEmpty(final_df)
            /\ db = db0
            /\ emails = 0
            /\ ENABLED Return
    /\ (pc = "idle" /\ runs < MaxRuns) => ENABLED RunScraper

\* a scheduled run ended in the except clause after drop_duplicates raised
C13_Witness ==
    /\ trigger = "run_scraper"
    /\ RunOver
    /\ outcome = "caught"
    /\ ~save_failed
    /\ handed # <<>>
    /\ "job_url" \notin handed[1].cols

\* C14: in every triggered run send_email is called if and only if the
\* filtered result set is non-empty
C14_NotifiedIffNonEmpty ==
    RunOver => ((emails > 0) <=> ~IsEmpty(final_df))

\* C15: trigger_scrape has given its acknowledgment as soon as the run it
\* started exists, and the acknowledgment stays what it was whatever the run
\* does and however it ends
C15_AcknowledgedWithoutWaiting ==
    (trigger = "run_background_scrape" /\ pc # "idle") => reply = <<Acknowledgment>>

\* a manually triggered run has failed and the acknowledgment stands
C15_Witness ==
    /\ trigger = "run_background_scrape"
    /\ RunOver
    /\ outcome = "caught"
    /\ reply = <<Acknowledgment>>

(***************************************************************************)
(* Claims about the rate limit                                             *)
(***************************************************************************)
\* all calls of func so far were made by one caller
SingleCaller == \A i, j \in 1..Len(starts) : starts[i].by = starts[j].by

\* every call of func began at least RATE_SECONDS after the call before it
StartsApart == \A i \in 1..(Len(starts) - 1) : starts[i + 1].at - starts[i].at >= RATE_SECONDS

\* C16: for two consecutive invocations of an adapter by one sequential
\* caller, the second fetch starts at least 5 seconds after the first fetch
\* started, whether the first returned or raised
C16_FiveSecondsBetweenStarts == SingleCaller => StartsApart

\* C17: when both threads invoke the same adapter, no two fetches start less
\* than 5 seconds apart, in any interleaving (stated for calls that all
\* returned normally)
C17_OverlappingRunsKeepInterval == (raises = 0) => StartsApart

(***************************************************************************)
(* Claims about overlapping runs                                           *)
(***************************************************************************)
\* C18: when both overlapping runs have persisted their sets, the store holds
\* exactly one row per url written by either run, with the field values one
\* of the two runs gave it, and nothing else; and while a run has neither
\* returned nor met a failing execute, some run has a step of its call to take
C18_LastWriterWinsPerUrl ==
    /\ (\A c \in Callers : wpc[c] = "returned") =>
            LET urls == UNION { UrlsOf(save_df[c]) : c \in Callers }
            IN  /\ \A url \in urls :
                        /\ Cardinality({ r \in db.jobs : r.job_url = url }) = 1
                        /\ \E c \in Callers : \E i \in 1..Len(save_df[c].rows) :
                                LET row == save_df[c].rows[i]
                                    r == StoredRow(db, url)
                                IN  /\ row["Job URL"] = url
                                    /\ r.title = row["Job Title"]
                                    /\ r.company = row["Company"]
                                    /\ r.date_posted = row["Date Posted"]
                                    /\ r.location = row["Location"]
                                    /\ r.source = row["Source"]
                /\ Cardinality(db.jobs) = Cardinality(urls)
    /\ (\E c \in Callers : wpc[c] \notin {"returned", "raised"}) =>
            ENABLED (\E c \in Callers : EnterSave(c) \/ WriteRow(c) \/ Commit(c))

\* both runs have returned after writing the same url with different contents
C18_Witness ==
    /\ \A c \in Callers : wpc[c] = "returned"
    /\ \E url \in UrlsOf(save_df["run_scraper"]) \cap UrlsOf(save_df["run_background_scrape"]) :
        \E i \in 1..Len(save_df["run_scraper"].rows) :
            \E j \in 1..Len(save_df["run_background_scrape"].rows) :
                /\ save_df["run_scraper"].rows[i]["Job URL"] = url
                /\ save_df["run_background_scrape"].rows[j]["Job URL"] = url
                /\ save_df["run_scraper"].rows[i] # save_df["run_background_scrape"].rows[j]

(***************************************************************************)
(* Claims about the filter loop                                            *)
(***************************************************************************)
\* the value the filtering test expects for one of its postings
ExpectedOf(posting) ==
    LET i == CHOOSE k \in 1..Len(test_jobs) : test_jobs[k].title = posting["title"]
    IN  test_jobs[i].expected

\* C24: the filter gives every posting of the filtering test the value the
\* test expects: the titles of the targeted role families are accepted, every
\* other title and the titles with "senior" or "manager" are rejected
C24_TestExpectationsMet ==
    (kept # <<>> /\ job \in TestJobs) => kept[1] = ExpectedOf(job)

\* the title or the description of the record contains an entry of
\* EXPERIENCE_KEYWORDS_TO_EXCLUDE
HasSeniorityEntry(record) ==
    \E k \in 1..Len(EXPERIENCE_KEYWORDS_TO_EXCLUDE) :
        \/ OccursIn(EXPERIENCE_KEYWORDS_TO_EXCLUDE[k], FieldText(record, "title"))
        \/ OccursIn(EXPERIENCE_KEYWORDS_TO_EXCLUDE[k], FieldText(record, "description"))

\* C25: a record with a seniority-exclusion entry in its title or description
\* is never kept, whatever its flags; a flagged record without such an entry
\* is kept whatever its location: the flags spare it the location check only
C25_SeniorityCheckIgnoresFlags ==
    (kept # <<>> /\ job \in KeepJobs) =>
        /\ HasSeniorityEntry(job) => kept[1] = FALSE
        /\ (Flagged(job) /\ ~HasSeniorityEntry(job)) => kept[1] = TRUE

\* C25 witness: a flagged record that the location check would let through
\* has been dropped for its seniority entry
C25_Witness ==
    /\ kept = <<FALSE>>
    /\ job \in KeepJobs
    /\ Flagged(job)
    /\ HasSeniorityEntry(job)
    /\ is_eu_friendly(job)

(***************************************************************************)
(* Claims about what the store keeps and what readers see                  *)
(***************************************************************************)
\* the urls that have a row
StoredUrls(table) == { r.job_url : r \in table.jobs }

\* C23: whatever the runs do (write, return on an empty frame, fail, one after
\* the other or overlapping), every url that has a row before a step has a
\* row after it: the set of stored urls never shrinks
C23_StoredUrlsNeverShrink == [][StoredUrls(db) \subseteq StoredUrls(db')]_vars

\* C23 witness: both runs have committed, and a url that only the run that
\* committed first wrote is still stored under the rows of the second
C23_Witness ==
    /\ \A c \in Callers : wpc[c] = "returned"
    /\ \E c, e \in Callers :
        /\ c # e
        /\ ~IsEmpty(save_df[e])
        /\ \E url \in UrlsOf(save_df[c]) \ UrlsOf(save_df[e]) :
            /\ url \in StoredUrls(db)
            /\ \A r \in db.jobs :
                    r.job_url \in UrlsOf(save_df[e]) => r.id > StoredRow(db, url).id

\* the runs whose call of save_jobs_to_db has returned
SavesReturned == { c \in Callers : wpc[c] = "returned" }

RECURSIVE WholeBatchTables(_)
\* the tables made of the whole batches of the runs in S, in any order
WholeBatchTables(S) ==
    IF S = {} THEN {InitialDb}
    ELSE UNION { { save_jobs_to_db(t, save_df[c]) : t \in WholeBatchTables(S \ {c}) } : c \in S }

\* C26: the committed table always consists of the whole batches of the calls
\* that returned, so a call that raised before its commit has left nothing;
\* and what a reader got is made of whole batches too, never of a part of one
C26_BatchIsAllOrNothing ==
    /\ db \in WholeBatchTables(SavesReturned)
    /\ seen # <<>> =>
            \E S \in SUBSET SavesReturned : seen[1] \in { t.jobs : t \in WholeBatchTables(S) }

\* C26 witness: a call wrote at least one row, a reader ran its query while
\* that transaction was open, and then the call raised before its commit
C26_Witness ==
    \E c \in Callers :
        /\ wpc[c] = "raised"
        /\ wi[c] > 1
        /\ seen # <<>>
        /\ seen[2] = c

(***************************************************************************)
(* Claims about the end-to-end scenario                                    *)
(***************************************************************************)
\* the first board extracted 2 postings and then failed, the second returned
\* its 3, and the store took the writes
ScenarioPlayed ==
    /\ RunOver
    /\ ~save_failed
    /\ upstream.boards[1] = Yields(SubSeq(EntriesA, 1, 2))

\* C19: in that scenario the working set has 5 records, deduplication leaves
\* 4, the filter leaves 3 after removing the Director, and 3 records are
\* written to the store
C19_ScenarioCounts ==
    ScenarioPlayed =>
        /\ handed # <<>>
        /\ Len(handed[1].rows) = 5
        /\ Len(unique_df.rows) = 4
        /\ Len(final_df.rows) = 3
        /\ db.seq - db0.seq = 3

\* a scrape_jobs call of the run returned
SomeSearchReturned(u) ==
    \/ \E i \in DOMAIN u.search : u.search[i].ok
    \/ \E i \in DOMAIN u.sweden : u.sweden[i].ok

\* the counts of the scenario in the runs in which a scrape_jobs call returned
ScenarioCountsAfterSearch ==
    (ScenarioPlayed /\ SomeSearchReturned(upstream)) =>
        /\ handed # <<>>
        /\ Len(handed[1].rows) = 5
        /\ Len(unique_df.rows) = 4
        /\ Len(final_df.rows) = 3
        /\ db.seq - db0.seq = 3

(***************************************************************************)
(* Claims about the extraction of entries                                  *)
(***************************************************************************)
\* the most records one call of the adapter is meant to return
CapOf(a) == ADAPTERS[a].requests * ADAPTERS[a].cap

\* C21: however many entries the source returns, the number of records an
\* adapter returns never exceeds that adapter's cap
C21_ResultWithinCap == ex_adapter # "none" => Len(ex_jobs) <= CapOf(ex_adapter)

\* C22: when the extraction of one entry fails, every well-formed entry
\* before and after it, within the cap, is still returned by the call
C22_OnlyTheBadEntrySkipped ==
    (ex_adapter # "none" /\ ADAPTERS[ex_adapter].builds) =>
        \A p \in 1..Len(ex_pages) : \A i \in 1..Len(ex_pages[p]) :
            (i <= ADAPTERS[ex_adapter].cap /\ ex_pages[p][i].shape = "ok") =>
                \E j \in 1..Len(ex_jobs) : ex_jobs[j] = RecordOf(ex_pages[p][i])

=============================================================================
